---------------------------- MODULE Spec2Model ----------------------------
(***************************************************************************)
(* Local-mode overrides of the chat extension: the local LLM endpoint      *)
(* adapter (LocalLlmEndpoint, LocalEndpointProvider), the fake GitHub      *)
(* authentication provider and its registration, the null token manager /  *)
(* authentication service, the null quota, automode and CAPI services, and *)
(* the context keys set at activation.                                     *)
(*                                                                         *)
(* Conventions.  A JavaScript string that the code concatenates or         *)
(* searches is a sequence of tokens (<<>> is '').  An optional value is a  *)
(* sequence of length at most one (<<>> is undefined/null).  An object     *)
(* whose fields the code deletes is a function over its field names.       *)
(***************************************************************************)
EXTENDS Integers, Sequences, FiniteSets, TLC

VARIABLES
    localProvider, \* the LocalEndpointProvider: the URL it was given and its _serverUrl
    endpoint,      \* the LocalLlmEndpoint instance: its readonly fields
    pc,            \* per call of makeChatRequest2: where the call is
    opts,          \* per call: the options it was called with
    requests,      \* per call: the HTTP requests it issued through IFetcherService
    resp,          \* per call: the HTTP response fetch resolved with
    parsed,        \* per call: JSON.parse(textResponse) of the non-streaming path
    arrays,        \* the `completions` arrays of the calls in progress
    cbLog,         \* per call: the invocations of its finished-callback, in order
    pending,       \* per call: the completion built while its finished-callback is awaited
    result,        \* per call: the ChatResponse the call resolved with
    error,         \* per call: the error the call rejected with
    provider,      \* FakeGitHubAuthenticationProvider: its _session field
    authRet,       \* what the last provider operation returned
    mgrToken,      \* NullCopilotTokenManager._fakeToken
    svcToken,      \* NullAuthenticationService._copilotToken
    tokenRet,      \* per token holder: the last operation on it and the token it gave
    sinceReset,    \* per token holder: the tokens handed out since its last reset
    beforeReset,   \* per token holder: the token handed out last before its last reset
    nextRef,       \* per token holder: the identity its next `new CopilotToken` gets
    now,           \* Date.now(), in days
    quotaCalls,    \* the headers last passed to processQuotaHeaders; whether clearQuota ran
    quotaRead,     \* what the host last read from the quota service
    endpointsCreated, \* the LocalLlmEndpoint instances the LocalEndpointProvider constructed
    providerLog,   \* what the LocalEndpointProvider operations resolved or rejected with, in order
    autoCreated,   \* the AutoChatEndpoint wrappers NullAutomodeService had instantiated
    autoRet,       \* what the last resolveAutoModeEndpoint call resolved or rejected with
    capiNetwork,   \* the network operations NullCAPIClientImpl performed
    capiRet,       \* what the last NullCAPIClientImpl operation returned
    capiRead,      \* the four URLs the host last read from NullCAPIClientImpl
    abExpContext,  \* NullCAPIClientImpl.abExpContext
    activated,     \* whether activate() ran
    ctxKeys,       \* the host's context keys (set through the 'setContext' command)
    ctxTimers,     \* the timers of setLocalModeContextKeys: ms until due, -1 when not pending
    elapsed,       \* ms since activate(), while the first runs of setKeys are observed
    setRuns,       \* the times (ms since activate) of the first runs of setKeys
    authRegistry,  \* who is registered with the host under provider id 'github'
    regs,          \* the calls of registerFakeAuthenticationProvider, in order
    sessionEvents, \* the events fired on the providers' onDidChangeSessions, in order
    ibEndpoint,    \* the LocalLlmEndpoint interceptBody is called on
    ibHeap,        \* the message objects in memory; a reference is an index
    ibBody,        \* the body handed to interceptBody; its messages are references
    ibCaller,      \* the body and the message objects as the caller built them
    ibRuns,        \* how often interceptBody ran on the body
    ibFirst        \* the body, with its messages' contents, after the first run

epVars == <<localProvider, endpoint, pc, opts, requests, resp, parsed, arrays, cbLog, pending, result, error>>
authVars == <<provider, authRet>>
tokenVars == <<mgrToken, svcToken, tokenRet, sinceReset, beforeReset, nextRef, now>>
quotaVars == <<quotaCalls, quotaRead>>
svcVars == <<endpointsCreated, providerLog, autoCreated, autoRet, capiNetwork, capiRet, capiRead,
            abExpContext>>
hostVars == <<activated, ctxKeys, ctxTimers, elapsed, setRuns, authRegistry, regs, sessionEvents>>
bodyVars == <<ibEndpoint, ibHeap, ibBody, ibCaller, ibRuns, ibFirst>>
otherVars == <<svcVars, hostVars, bodyVars>>
vars == <<epVars, authVars, tokenVars, quotaVars, otherVars>>

(***************************************************************************)
(* Bounds of the model.                                                    *)
(***************************************************************************)
NumCalls == 2        \* concurrent makeChatRequest2 calls on one endpoint
MaxChoices == 2      \* choices of one server answer
MaxTokens == 3       \* CopilotToken objects one token holder ever constructs
MaxDays == 1         \* how far the clock advances
MaxProviderCalls == 3   \* operations called on one LocalEndpointProvider
MaxEndpoints == 2    \* endpoints in one knownEndpoints list
MaxWrappers == 2     \* AutoChatEndpoint wrappers instantiated in one run
MaxRuns == 6         \* runs of setKeys whose times are observed
MaxIntercepts == 2   \* calls of interceptBody on one body
MaxRegistrations == 2   \* calls of registerFakeAuthenticationProvider

Calls == 1..NumCalls

(***************************************************************************)
(* JavaScript helpers.                                                     *)
(***************************************************************************)
Undefined == <<>>
Some(v) == <<v>>
\* a ?? b
Coalesce(a, b) == IF a /= Undefined THEN a ELSE b
\* delete obj[field]
Delete(obj, f) == [k \in DOMAIN obj \ {f} |-> obj[k]]
\* obj[field] = v
Put(obj, f, v) == [k \in DOMAIN obj \cup {f} |-> IF k = f THEN v ELSE obj[k]]
\* String.prototype.includes
Includes(hay, needle) ==
    \E i \in 0..(Len(hay) - Len(needle)) :
        \A j \in 1..Len(needle) : hay[i + j] = needle[j]
\* Array.prototype.join('') of an array of strings
RECURSIVE Join(_)
Join(pieces) == IF pieces = <<>> THEN <<>> ELSE Head(pieces) \o Join(Tail(pieces))
Last(s) == s[Len(s)]


(***************************************************************************)
(* LocalEndpointProvider and LocalLlmEndpoint: construction.               *)
(***************************************************************************)
DefaultServerUrl == <<"http://127.0.0.1:8777">>
ChatCompletionsPath == <<"/v1/chat/completions">>
\* the setting the provider is constructed with ('' when not configured)
ConfiguredUrls == {<<>>, <<"http://localhost:1234">>}

\* createLocalModelMetadata()
createLocalModelMetadata ==
    [id |-> "local-llm",
     limits |-> [max_prompt_tokens |-> 128000, max_output_tokens |-> 16384],
     supports |-> [tool_calls |-> TRUE]]

\* LocalEndpointProvider.constructor: serverUrl || 'http://127.0.0.1:8777'
ProviderServerUrl(configured) ==
    IF configured /= <<>> THEN configured ELSE DefaultServerUrl
NewLocalEndpointProvider(configured) ==
    [configured |-> configured, _serverUrl |-> ProviderServerUrl(configured),
     _chatEndpoint |-> Undefined]

\* new LocalLlmEndpoint(modelMetadata, serverUrl, ...)
NewLocalLlmEndpoint(modelMetadata, serverUrl) ==
    [model |-> modelMetadata.id,
     serverUrl |-> serverUrl,
     maxTokens |-> modelMetadata.limits.max_prompt_tokens,
     maxOutputTokens |-> modelMetadata.limits.max_output_tokens,
     supportsToolCalls |-> modelMetadata.supports.tool_calls]

\* get urlOrRequestMetadata
urlOrRequestMetadata(ep) == ep.serverUrl \o ChatCompletionsPath

\* getExtraHeaders()
getExtraHeaders == [ContentType |-> "application/json"]

(***************************************************************************)
(* The request body.                                                       *)
(***************************************************************************)
CopilotMessageFields == {"copilot_references", "copilot_confirmations", "copilot_cache_control"}
CopilotBodyFields == {"snippy", "copilot_thread_id", "copilot_skills"}

RECURSIVE DeleteAll(_, _)
DeleteAll(obj, fields) ==
    IF fields = {} THEN obj
    ELSE LET f == CHOOSE x \in fields : TRUE
         IN  DeleteAll(Delete(obj, f), fields \ {f})

\* createRequestBody(options)
createRequestBody(ep, o) ==
    LET b0 == [model |-> ep.model,
               stream |-> TRUE,
               max_tokens |-> IF o.maxOutputTokens /= Undefined
                              THEN o.maxOutputTokens[1] ELSE ep.maxOutputTokens]
        b1 == IF o.temperature /= Undefined THEN Put(b0, "temperature", o.temperature[1]) ELSE b0
        b2 == IF o.topP /= Undefined THEN Put(b1, "top_p", o.topP[1]) ELSE b1
        b3 == IF o.tools /= Undefined THEN Put(b2, "tools", o.tools[1]) ELSE b2
        b4 == IF o.messages /= Undefined THEN Put(b3, "messages", o.messages[1]) ELSE b3
    IN  b4

\* interceptBody(body), for a defined body
interceptBody(ep, body) ==
    LET b1 == DeleteAll(body, CopilotBodyFields)
        b2 == IF "messages" \in DOMAIN b1
              THEN Put(b1, "messages",
                       [i \in DOMAIN b1.messages |-> DeleteAll(b1.messages[i], CopilotMessageFields)])
              ELSE b1
    IN  IF ~ep.supportsToolCalls THEN Delete(b2, "tools") ELSE b2

(***************************************************************************)
(* The options a call is made with.                                        *)
(***************************************************************************)
UserMessage == [role |-> "user", content |-> <<"h", "i">>]
CachedMessage == [role |-> "system", content |-> <<"s">>, copilot_cache_control |-> "ephemeral"]

\* finishedCb: "undefined" (none given), "cb" (returns), "cbThrows" (throws when invoked)
PlainOptions(entry) ==
    [entry |-> entry, finishedCb |-> "undefined", messages |-> <<UserMessage>>,
     max_tokens |-> Undefined, temperature |-> Undefined, top_p |-> Undefined,
     tools |-> Undefined]
ToolOptions(entry, cb) ==
    [entry |-> entry, finishedCb |-> cb, messages |-> <<CachedMessage, UserMessage>>,
     max_tokens |-> Some(100), temperature |-> Some(0), top_p |-> Undefined,
     tools |-> Some(<<"tool-a">>)]
EntryPoints == {"makeChatRequest2", "makeChatRequest"}
AllOptions ==
    {PlainOptions(e) : e \in EntryPoints}
        \cup {ToolOptions(e, "cb") : e \in EntryPoints}
        \cup {ToolOptions("makeChatRequest2", "cbThrows")}
FewOptions == {PlainOptions("makeChatRequest"), ToolOptions("makeChatRequest2", "cb")}

\* the ICreateEndpointBodyOptions makeChatRequest2 builds from its options
BodyOptions(o) ==
    [messages |-> Some(o.messages),
     maxOutputTokens |-> o.max_tokens,
     temperature |-> o.temperature,
     topP |-> o.top_p,
     tools |-> o.tools]

\* the POST makeChatRequest2 hands to IFetcherService.fetch
FetchRequest(ep, o) ==
    [url |-> urlOrRequestMetadata(ep),
     method |-> "POST",
     headers |-> getExtraHeaders,
     body |-> interceptBody(ep, createRequestBody(ep, BodyOptions(o)))]


(***************************************************************************)
(* What the local server answers.  A logical answer is a list of choices,  *)
(* each with its text (in the pieces the server produced it in), its tool  *)
(* calls and its finish reason; the server delivers it either as one JSON  *)
(* body or as a server-sent-event stream.                                  *)
(***************************************************************************)
ToolCallA == [id |-> Some(<<"call-1">>), type |-> "function",
              function |-> Some([name |-> Some(<<"f">>), arguments |-> Some(<<"{}">>)])]

\* the ICopilotToolCall of a wire tool call: name: tool.function?.name ?? '',
\* arguments: tool.function?.arguments ?? '', id: tool.id ?? ''
OrEmpty(m) == IF m = Undefined THEN <<>> ELSE m[1]
CopilotToolCallOf(tool) ==
    [name |-> IF tool.function = Undefined THEN <<>> ELSE OrEmpty(tool.function[1].name),
     arguments |-> IF tool.function = Undefined THEN <<>> ELSE OrEmpty(tool.function[1].arguments),
     id |-> OrEmpty(tool.id)]

TextChoice == [pieces |-> << <<"a">> >>, toolCalls |-> <<>>, reason |-> "stop", cut |-> FALSE]
SplitChoice == [pieces |-> << <<"a">>, <<"b">> >>, toolCalls |-> <<>>, reason |-> "length", cut |-> TRUE]
ToolChoice == [pieces |-> <<>>, toolCalls |-> <<ToolCallA>>, reason |-> "tool_calls", cut |-> FALSE]
ChoiceKinds == {TextChoice, SplitChoice, ToolChoice}

RECURSIVE SeqsUpTo(_, _)
SeqsUpTo(S, n) ==
    IF n = 0 THEN {<<>>}
    ELSE LET shorter == SeqsUpTo(S, n - 1)
         IN  shorter \cup {Append(q, x) : q \in {r \in shorter : Len(r) = n - 1}, x \in S}

Answers == {[choices |-> cs, model |-> "srv-model", usage |-> Some("usage-1")] :
                cs \in SeqsUpTo(ChoiceKinds, MaxChoices)}
FewAnswers == {[choices |-> cs, model |-> "srv-model", usage |-> Some("usage-1")] :
                cs \in {<<SplitChoice>>, <<ToolChoice>>}}

\* the JSON object of an answer, as an OpenAI-compatible server writes it
JsonChoice(ch) ==
    [message |-> [role |-> "assistant",
                  content |-> IF ch.pieces = <<>> THEN Undefined ELSE Some(Join(ch.pieces)),
                  name |-> Undefined,
                  toolCalls |-> Undefined,
                  tool_calls |-> IF ch.toolCalls = <<>> THEN Undefined ELSE Some(ch.toolCalls)],
     finish_reason |-> ch.reason]
JsonOf(a) ==
    [choices |-> [i \in DOMAIN a.choices |-> JsonChoice(a.choices[i])],
     model |-> a.model, usage |-> a.usage, id |-> <<"cmpl-1">>, created |-> 1]

\* response.text(): text that JSON.parse rejects, the text 'null', an object with no
\* choices field, or an answer's object
InvalidText == [valid |-> FALSE, json |-> Undefined]
NullText == [valid |-> TRUE, json |-> Undefined]
NoChoicesText == [valid |-> TRUE, json |-> Some([model |-> "srv-model", usage |-> Undefined,
                                               id |-> <<"cmpl-1">>, created |-> 1])]
AnswerText(a) == [valid |-> TRUE, json |-> Some(JsonOf(a))]

\* what getRequestId makes of the response for the stream processor
StreamRequestId(xRequestId) ==
    [headerRequestId |-> OrEmpty(xRequestId), gitHubRequestId |-> <<>>,
     completionId |-> <<"cmpl-1">>, created |-> 1, deploymentId |-> <<>>,
     serverExperiments |-> <<>>]

\* the FinishedCompletion the stream processor yields for choice number i of an answer
FinishedOf(a, i, index, xRequestId) ==
    [solution |-> [text |-> a.choices[i].pieces, model |-> a.model],
     index |-> index,
     reason |-> a.choices[i].reason,
     finishOffset |-> IF a.choices[i].cut THEN Some(0) ELSE Undefined,
     filterReason |-> Undefined,
     usage |-> a.usage,
     requestId |-> StreamRequestId(xRequestId),
     error |-> Undefined]

\* the stream processor's steps on an answer: per choice, one finished-callback
\* invocation per text piece and one per tool-call delta, then the choice's
\* FinishedCompletion; order "desc" delivers the choices last index first
RECURSIVE PieceEvents(_, _, _)
PieceEvents(pieces, k, index) ==
    IF k > Len(pieces) THEN <<>>
    ELSE <<[kind |-> "callback",
            call |-> [text |-> Join(SubSeq(pieces, 1, k)), index |-> index,
                      delta |-> [text |-> pieces[k], copilotToolCalls |-> <<>>]]]>>
         \o PieceEvents(pieces, k + 1, index)
ToolEvents(ch, index) ==
    IF ch.toolCalls = <<>> THEN <<>>
    ELSE <<[kind |-> "callback",
            call |-> [text |-> Join(ch.pieces), index |-> index,
                      delta |-> [text |-> <<>>,
                                 copilotToolCalls |->
                                     [t \in DOMAIN ch.toolCalls |->
                                         CopilotToolCallOf(ch.toolCalls[t])]]]]>>
ChoiceEvents(a, i, index, xRequestId) ==
    PieceEvents(a.choices[i].pieces, 1, index)
        \o ToolEvents(a.choices[i], index)
        \o <<[kind |-> "yield", item |-> FinishedOf(a, i, index, xRequestId)]>>
RECURSIVE StreamEventsFrom(_, _, _, _)
StreamEventsFrom(a, k, order, xRequestId) ==
    IF k > Len(a.choices) THEN <<>>
    ELSE LET i == IF order = "asc" THEN k ELSE Len(a.choices) + 1 - k
         IN  ChoiceEvents(a, i, i - 1, xRequestId) \o StreamEventsFrom(a, k + 1, order, xRequestId)
StreamEvents(a, order, xRequestId) == StreamEventsFrom(a, 1, order, xRequestId)

(***************************************************************************)
(* HTTP responses.                                                         *)
(***************************************************************************)
EventStreamTypes == {<<"text/event-stream">>, <<"text/event-stream", "; charset=utf-8">>}
OtherTypes == {<<>>, <<"application/json">>, <<"TEXT/EVENT-STREAM">>}
RequestIdHeaders == {Undefined, Some(<<"req-1">>)}
StatusText(status) ==
    IF status = 200 THEN "OK" ELSE IF status = 404 THEN "Not Found" ELSE "Internal Server Error"
\* Response.ok
ResponseOkOf(status) == status >= 200 /\ status <= 299

\* failAfter: the stream throws after that many steps (Undefined: it ends normally)
MakeResponse(status, contentType, xRequestId, text, events, failAfter, answer) ==
    [status |-> status, statusText |-> StatusText(status), ok |-> ResponseOkOf(status),
     contentType |-> contentType, xRequestId |-> xRequestId,
     text |-> text, events |-> events, failAfter |-> failAfter, answer |-> answer]

JsonResponses(status, types, rids, answers, extra) ==
    {MakeResponse(status, ct, rid, AnswerText(a), <<>>, Undefined, Some(a)) :
        ct \in types, rid \in rids, a \in answers}
    \cup {MakeResponse(status, ct, Undefined, t, <<>>, Undefined, Undefined) :
        ct \in types, t \in extra}

\* fails: after how many steps the stream may throw (Undefined: it ends normally)
AnyFailPoint == {Undefined} \cup {Some(k) : k \in 0..(3 * MaxChoices)}
StreamResponses(status, types, rids, answers, orders, fails) ==
    UNION {LET ev == StreamEvents(a, order, rid)
           IN  {MakeResponse(status, ct, rid, InvalidText, ev, f, Some(a)) :
                    f \in {g \in fails : g = Undefined \/ g[1] < Len(ev)}} :
           ct \in types, rid \in rids, a \in answers, order \in orders}

OkResponses ==
    JsonResponses(200, OtherTypes, RequestIdHeaders, Answers, {InvalidText, NullText, NoChoicesText})
        \cup StreamResponses(200, EventStreamTypes, RequestIdHeaders, Answers, {"asc", "desc"}, {Undefined})
        \cup StreamResponses(200, {<<"text/event-stream">>}, {Undefined}, Answers, {"asc"}, AnyFailPoint)
ErrorResponses ==
    JsonResponses(404, {<<"application/json">>}, RequestIdHeaders, FewAnswers, {})
        \cup StreamResponses(500, {<<"text/event-stream">>}, RequestIdHeaders, FewAnswers, {"asc"}, {Undefined})
AllResponses == OkResponses \cup ErrorResponses
FewResponses ==
    JsonResponses(200, {<<"application/json">>}, {Undefined}, FewAnswers, {})
        \cup StreamResponses(200, {<<"text/event-stream">>}, {Undefined}, FewAnswers, {"asc"}, {Undefined})
        \cup StreamResponses(200, {<<"text/event-stream">>}, {Undefined}, {[choices |-> <<TextChoice>>, model |-> "srv-model", usage |-> Undefined]}, {"asc"}, {Some(1)})
        \cup JsonResponses(404, {<<"application/json">>}, {Undefined}, {}, {NullText})


(***************************************************************************)
(* Response processing: the pure parts.                                    *)
(***************************************************************************)
UUIDs == {<<"uuid-1">>, <<"uuid-2">>}     \* what generateUuid() may return

\* getTextPart(content) for a string or missing content
getTextPart(content) == IF content = Undefined THEN <<>> ELSE content[1]

\* TelemetryData.createAndMarkAsIssued({}, {}): one object per call
TelemetryFor(c) == [issuedFor |-> c]

\* contentType.includes('text/event-stream')
IsEventStream(r) == Includes(r.contentType, <<"text/event-stream">>)

\* !response.ok is what makes makeChatRequest2 throw
ResponseOkAlways(r) == TRUE
ResponseOk(r) == r.ok

\* jsonResponse?.choices?.length || 0
NumJsonChoicesFirstOnly(json) ==
    IF json = Undefined THEN 0
    ELSE IF "choices" \notin DOMAIN json[1] THEN 0
    ELSE IF json[1].choices = <<>> THEN 0 ELSE 1
NumJsonChoices(json) ==
    IF json = Undefined THEN 0
    ELSE IF "choices" \notin DOMAIN json[1] THEN 0
    ELSE Len(json[1].choices)

\* the message of choice i (0-based) of the non-streaming path
JsonMessage(json, i) ==
    LET m == json[1].choices[i + 1].message
    IN  [role |-> m.role, content |-> m.content, name |-> m.name,
         toolCalls |-> Coalesce(m.toolCalls, m.tool_calls)]

\* response.headers.get('X-Request-ID') ?? generateUuid()
JsonRequestId(r, uuid) == IF r.xRequestId /= Undefined THEN r.xRequestId[1] ELSE uuid

\* the ChatCompletion of choice i (0-based) of the non-streaming path
JsonCompletion(json, i, requestId, telemetryData) ==
    [blockFinished |-> FALSE,
     choiceIndex |-> i,
     model |-> json[1].model,
     filterReason |-> Undefined,
     finishReason |-> json[1].choices[i + 1].finish_reason,
     message |-> JsonMessage(json, i),
     usage |-> json[1].usage,
     tokens |-> <<>>,
     requestId |-> [headerRequestId |-> requestId, gitHubRequestId |-> <<>>,
                    completionId |-> json[1].id, created |-> json[1].created,
                    deploymentId |-> <<>>, serverExperiments |-> <<>>],
     telemetryData |-> telemetryData]

\* the arguments of the finished-callback for choice i of the non-streaming path
JsonCallbackArgs(json, i) ==
    LET message == JsonMessage(json, i)
        messageText == getTextPart(message.content)
        tools == IF message.toolCalls = Undefined THEN <<>> ELSE message.toolCalls[1]
    IN  [text |-> messageText, index |-> i,
         delta |-> [text |-> messageText,
                    copilotToolCalls |-> [t \in DOMAIN tools |-> CopilotToolCallOf(tools[t])]]]

\* the ChatCompletion made of a FinishedCompletion of the streaming path
StreamCompletionByPosition(fc, position, telemetryData) ==
    [blockFinished |-> fc.finishOffset /= Undefined,
     choiceIndex |-> position,
     model |-> fc.solution.model,
     filterReason |-> fc.filterReason,
     finishReason |-> fc.reason,
     message |-> [role |-> "Raw.ChatRole.Assistant", content |-> Some(Join(fc.solution.text))],
     usage |-> fc.usage,
     tokens |-> fc.solution.text,
     requestId |-> fc.requestId,
     telemetryData |-> telemetryData,
     error |-> fc.error]
StreamCompletion(fc, position, telemetryData) ==
    [blockFinished |-> fc.finishOffset /= Undefined,
     choiceIndex |-> fc.index,
     model |-> fc.solution.model,
     filterReason |-> fc.filterReason,
     finishReason |-> fc.reason,
     message |-> [role |-> "Raw.ChatRole.Assistant", content |-> Some(Join(fc.solution.text))],
     usage |-> fc.usage,
     tokens |-> fc.solution.text,
     requestId |-> fc.requestId,
     telemetryData |-> telemetryData,
     error |-> fc.error]

\* completions.push(completion) on the array of call c
PushCompletionShared(arr, c, completion) == [k \in DOMAIN arr |-> Append(arr[k], completion)]
PushCompletion(arr, c, completion) == [arr EXCEPT ![c] = Append(@, completion)]

\* the ChatResponse makeChatRequest2 returns: the text, request id and usage of
\* the last completion
ChatResponseOf(ep, completions) ==
    LET n == Len(completions)
    IN  [type |-> "success",
         value |-> IF n = 0 THEN <<>> ELSE getTextPart(completions[n].message.content),
         requestId |-> IF n = 0 THEN <<>> ELSE completions[n].requestId.headerRequestId,
         serverRequestId |-> IF n = 0 THEN <<>> ELSE completions[n].requestId.headerRequestId,
         usage |-> IF n = 0 THEN Undefined ELSE completions[n].usage,
         resolvedModel |-> ep.model]

\* new Error(`Local LLM request failed: ${response.status} ${response.statusText}`)
RequestFailedError(r) ==
    [name |-> "Error", message |-> <<"Local LLM request failed: ", r.status, " ", r.statusText>>]


(***************************************************************************)
(* LocalLlmEndpoint.makeChatRequest2, one action per stretch of code       *)
(* between two awaits.                                                     *)
(***************************************************************************)
EndpointUnchanged == UNCHANGED <<authVars, tokenVars, quotaVars, otherVars>>

\* a throw anywhere in the call rejects makeChatRequest2; the call's local
\* completions array is dropped with its frame
Reject(c, err) ==
    /\ pc' = [pc EXCEPT ![c] = "thrown"]
    /\ error' = [error EXCEPT ![c] = Some(err)]
    /\ arrays' = [arrays EXCEPT ![c] = <<>>]
    /\ pending' = [pending EXCEPT ![c] = Undefined]

\* makeChatRequest2, up to `await this._fetcherService.fetch(...)`
makeChatRequest2(c, o) ==
    /\ pc[c] = "idle"
    /\ o.entry \in EntryPoints
    /\ opts' = [opts EXCEPT ![c] = Some(o)]
    /\ requests' = [requests EXCEPT ![c] = Append(@, FetchRequest(endpoint, o))]
    /\ pc' = [pc EXCEPT ![c] = "fetching"]
    /\ UNCHANGED <<localProvider, endpoint, resp, parsed, arrays, cbLog, pending, result, error>>
    /\ EndpointUnchanged

\* makeChatRequest: packs its arguments into options and calls makeChatRequest2
makeChatRequest(c, o) ==
    /\ o.entry = "makeChatRequest"
    /\ makeChatRequest2(c, o)

\* fetch rejects (the server cannot be reached)
FetchRejectsRetry(c) ==
    /\ pc[c] = "fetching"
    /\ Len(requests[c]) < 3
    /\ requests' = [requests EXCEPT ![c] = Append(@, requests[c][1])]
    /\ UNCHANGED <<localProvider, endpoint, pc, opts, resp, parsed, arrays, cbLog, pending,
                   result, error>>
    /\ EndpointUnchanged
FetchRejects(c) ==
    /\ pc[c] = "fetching"
    /\ Reject(c, [name |-> "FetchError", message |-> <<"fetch failed">>])
    /\ UNCHANGED <<localProvider, endpoint, opts, requests, resp, parsed, cbLog, result>>
    /\ EndpointUnchanged

\* fetch resolves: the response.ok test, then processResponseFromChatEndpoint up
\* to its first await (SSEProcessor.create, or response.text())
FetchResolves(c, r) ==
    /\ pc[c] = "fetching"
    /\ resp' = [resp EXCEPT ![c] = Some(r)]
    /\ IF ~ResponseOk(r)
       THEN Reject(c, RequestFailedError(r))
       ELSE /\ pc' = [pc EXCEPT ![c] = IF IsEventStream(r) THEN "stream" ELSE "text"]
            /\ UNCHANGED <<arrays, pending, error>>
    /\ UNCHANGED <<localProvider, endpoint, opts, requests, parsed, cbLog, result>>
    /\ EndpointUnchanged

\* processNonStreamingResponse: response.text() resolved, JSON.parse
TextResolves(c) ==
    /\ pc[c] = "text"
    /\ IF resp[c][1].text.valid
       THEN /\ parsed' = [parsed EXCEPT ![c] = resp[c][1].text.json]
            /\ pc' = [pc EXCEPT ![c] = "loop"]
            /\ UNCHANGED <<arrays, pending, error>>
       ELSE /\ Reject(c, [name |-> "SyntaxError", message |-> <<"JSON.parse">>])
            /\ UNCHANGED parsed
    /\ UNCHANGED <<localProvider, endpoint, opts, requests, resp, cbLog, result>>
    /\ EndpointUnchanged

\* processNonStreamingResponse: one loop iteration up to `await finishCallback(...)`
JsonInvoke(c, uuid) ==
    /\ pc[c] = "loop"
    /\ Len(arrays[c]) < NumJsonChoices(parsed[c])
    /\ LET i == Len(arrays[c])
       IN  /\ pending' = [pending EXCEPT ![c] =
                  Some(JsonCompletion(parsed[c], i, JsonRequestId(resp[c][1], uuid), TelemetryFor(c)))]
           /\ cbLog' = [cbLog EXCEPT ![c] = Append(@, JsonCallbackArgs(parsed[c], i))]
    /\ pc' = [pc EXCEPT ![c] = "awaitCallback"]
    /\ UNCHANGED <<localProvider, endpoint, opts, requests, resp, parsed, arrays, result, error>>
    /\ EndpointUnchanged

\* the awaited finished-callback settles: completions.push(completion), next iteration
JsonResume(c) ==
    /\ pc[c] = "awaitCallback"
    /\ IF opts[c][1].finishedCb = "cbThrows"
       THEN Reject(c, [name |-> "CallbackError", message |-> <<"finishedCb threw">>])
       ELSE /\ arrays' = PushCompletion(arrays, c, pending[c][1])
            /\ pending' = [pending EXCEPT ![c] = Undefined]
            /\ pc' = [pc EXCEPT ![c] = "loop"]
            /\ UNCHANGED error
    /\ UNCHANGED <<localProvider, endpoint, opts, requests, resp, parsed, cbLog, result>>
    /\ EndpointUnchanged

\* the streaming path: how many steps of the processor's stream were consumed
StreamPos(c) == Len(cbLog[c]) + Len(arrays[c])
StreamFailsNow(c) == resp[c][1].failAfter = Some(StreamPos(c))
\* a for-await that is left as soon as one completion was pushed
StreamEndedEarly(c) == Len(arrays[c]) >= 1 \/ StreamPos(c) >= Len(resp[c][1].events)

\* the for-await over processSSE is at its end
StreamEnded(c) == StreamPos(c) >= Len(resp[c][1].events)

\* the stream throws (connection lost, malformed event) inside the for-await
StreamThrows(c) ==
    /\ pc[c] = "stream"
    /\ StreamFailsNow(c)
    /\ Reject(c, [name |-> "StreamError", message |-> <<"stream failed">>])
    /\ UNCHANGED <<localProvider, endpoint, opts, requests, resp, parsed, cbLog, result>>
    /\ EndpointUnchanged

\* processSSE(finishCallback) invokes the finished-callback on a chunk
StreamCallback(c) ==
    /\ pc[c] = "stream"
    /\ ~StreamFailsNow(c)
    /\ ~StreamEnded(c)
    /\ LET ev == resp[c][1].events[StreamPos(c) + 1]
       IN  /\ ev.kind = "callback"
           /\ cbLog' = [cbLog EXCEPT ![c] = Append(@, ev.call)]
    /\ IF opts[c][1].finishedCb = "cbThrows"
       THEN Reject(c, [name |-> "CallbackError", message |-> <<"finishedCb threw">>])
       ELSE UNCHANGED <<pc, arrays, pending, error>>
    /\ UNCHANGED <<localProvider, endpoint, opts, requests, resp, parsed, result>>
    /\ EndpointUnchanged

\* processSSE yields a FinishedCompletion: convert it and push it
StreamYield(c) ==
    /\ pc[c] = "stream"
    /\ ~StreamFailsNow(c)
    /\ ~StreamEnded(c)
    /\ LET ev == resp[c][1].events[StreamPos(c) + 1]
       IN  /\ ev.kind = "yield"
           /\ arrays' = PushCompletion(arrays, c,
                            StreamCompletion(ev.item, Len(arrays[c]), TelemetryFor(c)))
    /\ UNCHANGED <<localProvider, endpoint, pc, opts, requests, resp, parsed, cbLog, pending, result, error>>
    /\ EndpointUnchanged

\* processResponseFromChatEndpoint returns AsyncIterableObject.fromArray(completions);
\* makeChatRequest2 runs over it and returns the ChatResponse
ProcessingComplete(c) ==
    \/ pc[c] = "loop" /\ Len(arrays[c]) >= NumJsonChoices(parsed[c])
    \/ pc[c] = "stream" /\ ~StreamFailsNow(c) /\ StreamEnded(c)
Finish(c) ==
    /\ ProcessingComplete(c)
    /\ result' = [result EXCEPT ![c] = Some(ChatResponseOf(endpoint, arrays[c]))]
    /\ pc' = [pc EXCEPT ![c] = "done"]
    /\ UNCHANGED <<localProvider, endpoint, opts, requests, resp, parsed, arrays, cbLog, pending, error>>
    /\ EndpointUnchanged


(***************************************************************************)
(* FakeGitHubAuthenticationProvider.                                       *)
(***************************************************************************)
SESSION_ID == "fake-github-session"
\* the object the _session field is initialised with; ref is its identity
FakeSession ==
    [ref |-> "session-0", id |-> SESSION_ID,
     accessToken |-> "fake-github-access-token-for-local-llm",
     account |-> [id |-> "local-user", label |-> "Local LLM User"],
     scopes |-> <<"user:email", "read:user", "repo", "workflow">>]
ScopeLists == {<<>>, <<"user:email">>, <<"repo", "admin:org">>}
SessionIds == {SESSION_ID, "some-other-session"}

AuthReturn(op, value, removed) == [op |-> op, value |-> value, removed |-> removed]

\* getSessions(_scopes): [this._session]
getSessions(scopes) ==
    /\ authRet' = AuthReturn("getSessions", <<provider._session>>, authRet.removed)
    /\ UNCHANGED <<provider, epVars, tokenVars, quotaVars, otherVars>>

\* createSession(_scopes): this._session
createSessionNew(scopes) ==
    /\ provider' = [provider EXCEPT !._session =
                        [FakeSession EXCEPT !.ref = "session-new", !.id = "created-session",
                                            !.scopes = scopes]]
    /\ authRet' = AuthReturn("createSession", <<provider'._session>>, authRet.removed)
    /\ UNCHANGED <<epVars, tokenVars, quotaVars, otherVars>>
createSession(scopes) ==
    /\ authRet' = AuthReturn("createSession", <<provider._session>>, authRet.removed)
    /\ UNCHANGED <<provider, epVars, tokenVars, quotaVars, otherVars>>

\* removeSession(_sessionId): nothing
removeSession(sessionId) ==
    /\ authRet' = AuthReturn("removeSession", <<>>, authRet.removed \cup {sessionId})
    /\ UNCHANGED <<provider, epVars, tokenVars, quotaVars, otherVars>>

(***************************************************************************)
(* NullCopilotTokenManager and NullAuthenticationService: the fake token.  *)
(***************************************************************************)
Holders == {"NullCopilotTokenManager", "NullAuthenticationService"}
DaysPerYear == 365

\* createFakeToken(): a new CopilotToken; expires_at and refresh_in in days
createFakeToken(holder, ref, today) ==
    [ref |-> <<holder, ref>>,
     expires_at |-> today + DaysPerYear,
     refresh_in |-> DaysPerYear,
     sku |-> "copilot_enterprise_seat",
     chat_enabled |-> TRUE,
     api |-> IF holder = "NullCopilotTokenManager"
             THEN "http://127.0.0.1:8765" ELSE "http://127.0.0.1:8777"]

\* op: the operation, after: the operation on the same holder before it
TokenReturn(op, after, value) == [op |-> op, after |-> after, value |-> value]

\* the bookkeeping of a token handed out by holder h
HandOut(h, op, token) ==
    /\ tokenRet' = [tokenRet EXCEPT ![h] = TokenReturn(op, @.op, token)]
    /\ sinceReset' = [sinceReset EXCEPT ![h] =
                         IF token = Undefined THEN @ \cup {"undefined"} ELSE @ \cup {token[1].ref}]
    /\ UNCHANGED beforeReset

\* the bookkeeping of a reset of holder h
NoteReset(h) ==
    /\ tokenRet' = [tokenRet EXCEPT ![h] = TokenReturn("resetCopilotToken", @.op, Undefined)]
    /\ beforeReset' = [beforeReset EXCEPT ![h] =
                          IF tokenRet[h].value /= Undefined THEN tokenRet[h].value ELSE @]
    /\ sinceReset' = [sinceReset EXCEPT ![h] = {}]

\* if (!this._fakeToken) { this._fakeToken = this.createFakeToken(); } return this._fakeToken;
FreshOrCached(h, held) ==
    IF held = Undefined THEN Some(createFakeToken(h, nextRef[h], now)) ELSE held
Allocated(h, held, given) ==
    IF given /= held THEN [nextRef EXCEPT ![h] = @ + 1] ELSE nextRef

\* NullCopilotTokenManager.getCopilotToken(_force)
ManagerGetCopilotToken(force) ==
    LET h == "NullCopilotTokenManager"
        token == FreshOrCached(h, mgrToken)
    IN  /\ mgrToken' = token
        /\ nextRef' = Allocated(h, mgrToken, token)
        /\ HandOut(h, "getCopilotToken", token)
        /\ UNCHANGED <<svcToken, now, epVars, authVars, quotaVars, otherVars>>

\* NullCopilotTokenManager.resetCopilotToken(_httpError): this._fakeToken = undefined
ManagerResetCopilotToken(httpError) ==
    LET h == "NullCopilotTokenManager"
    IN  /\ nextRef[h] <= MaxTokens
        /\ mgrToken' = Undefined
        /\ NoteReset(h)
        /\ UNCHANGED <<svcToken, nextRef, now, epVars, authVars, quotaVars, otherVars>>

\* NullAuthenticationService.getCopilotToken(_force)
ServiceGetCopilotToken(force) ==
    LET h == "NullAuthenticationService"
        token == FreshOrCached(h, svcToken)
    IN  /\ svcToken' = token
        /\ nextRef' = Allocated(h, svcToken, token)
        /\ HandOut(h, "getCopilotToken", token)
        /\ UNCHANGED <<mgrToken, now, epVars, authVars, quotaVars, otherVars>>

\* NullAuthenticationService: get copilotToken()
ServiceCopilotTokenGetterPlain ==
    LET h == "NullAuthenticationService"
    IN  /\ HandOut(h, "copilotToken", svcToken)
        /\ UNCHANGED <<mgrToken, svcToken, nextRef, now, epVars, authVars, quotaVars, otherVars>>
ServiceCopilotTokenGetter ==
    LET h == "NullAuthenticationService"
        token == FreshOrCached(h, svcToken)
    IN  /\ svcToken' = token
        /\ nextRef' = Allocated(h, svcToken, token)
        /\ HandOut(h, "copilotToken", token)
        /\ UNCHANGED <<mgrToken, now, epVars, authVars, quotaVars, otherVars>>

\* NullAuthenticationService.resetCopilotToken(_httpError): this._copilotToken = undefined
ServiceResetCopilotToken(httpError) ==
    LET h == "NullAuthenticationService"
    IN  /\ nextRef[h] <= MaxTokens
        /\ svcToken' = Undefined
        /\ NoteReset(h)
        /\ UNCHANGED <<mgrToken, nextRef, now, epVars, authVars, quotaVars, otherVars>>

\* time passes: Date.now() grows
Tick ==
    /\ now < MaxDays
    /\ now' = now + 1
    /\ UNCHANGED <<mgrToken, svcToken, tokenRet, sinceReset, beforeReset, nextRef,
                   epVars, authVars, quotaVars, otherVars>>

(***************************************************************************)
(* NullChatQuotaService.                                                   *)
(***************************************************************************)
\* the quota headers of a response: what is left, and whether overage is permitted
QuotaHeaderSets == {[remaining |-> r, overage_permitted |-> o] : r \in {0, 50}, o \in BOOLEAN}

\* get quotaExhausted()
quotaExhaustedFromHeaders == quotaCalls.headers /= Undefined /\ quotaCalls.headers[1].remaining = 0
quotaExhausted == FALSE

\* get overagesEnabled()
overagesEnabled == TRUE

\* processQuotaHeaders(_headers): nothing; quotaCalls notes what it was called with
processQuotaHeaders(headers) ==
    /\ quotaCalls' = [quotaCalls EXCEPT !.headers = Some(headers)]
    /\ UNCHANGED <<quotaRead, epVars, authVars, tokenVars, otherVars>>

\* clearQuota(): nothing; quotaCalls notes that it was called
clearQuota ==
    /\ quotaCalls' = [quotaCalls EXCEPT !.cleared = TRUE]
    /\ UNCHANGED <<quotaRead, epVars, authVars, tokenVars, otherVars>>

\* the host reads both getters
ReadQuota ==
    /\ quotaRead' = Some([quotaExhausted |-> quotaExhausted,
                          overagesEnabled |-> overagesEnabled,
                          calls |-> quotaCalls])
    /\ UNCHANGED <<quotaCalls, epVars, authVars, tokenVars, otherVars>>

(***************************************************************************)
(* LocalEndpointProvider: the operations the host resolves endpoints with. *)
(* An instance the provider constructs carries its identity in `ref`.      *)
(***************************************************************************)
\* what the host asks for: a family, a model of the picker, a chat request
EndpointRequests == {"copilot-base", "gpt-4.1", "request-1"}
ProviderReturn(op, arg, value, err) == [op |-> op, arg |-> arg, value |-> value, error |-> err]
SvcUnchanged ==
    UNCHANGED <<autoCreated, autoRet, capiNetwork, capiRet, capiRead, abExpContext, hostVars,
                bodyVars>>
ProviderFrame ==
    /\ Len(providerLog) < MaxProviderCalls
    /\ UNCHANGED <<endpoint, pc, opts, requests, resp, parsed, arrays, cbLog, pending, result,
                error, authVars, tokenVars, quotaVars>>

NewInstance(p, created) ==
    [ref |-> Len(created) + 1,
     endpoint |-> NewLocalLlmEndpoint(createLocalModelMetadata, p._serverUrl)]

\* getOrCreateLocalEndpoint that constructs an endpoint on every call
getOrCreateLocalEndpointAlways(p, created) ==
    LET inst == NewInstance(p, created)
    IN  [provider |-> [p EXCEPT !._chatEndpoint = Some(inst)],
         created |-> Append(created, inst),
         value |-> inst]

\* getOrCreateLocalEndpoint(): the provider after the call, the instances
\* constructed so far, and the instance returned
getOrCreateLocalEndpoint(p, created) ==
    IF p._chatEndpoint = Undefined
    THEN LET inst == NewInstance(p, created)
         IN  [provider |-> [p EXCEPT !._chatEndpoint = Some(inst)],
              created |-> Append(created, inst),
              value |-> inst]
    ELSE [provider |-> p, created |-> created, value |-> p._chatEndpoint[1]]

\* getChatEndpoint(_requestOrFamilyOrModel)
getChatEndpoint(arg) ==
    LET got == getOrCreateLocalEndpoint(localProvider, endpointsCreated)
    IN  /\ localProvider' = got.provider
        /\ endpointsCreated' = got.created
        /\ providerLog' = Append(providerLog, ProviderReturn("getChatEndpoint", Some(arg), Some(got.value), Undefined))
        /\ ProviderFrame /\ SvcUnchanged

\* getAllChatEndpoints()
getAllChatEndpoints ==
    LET got == getOrCreateLocalEndpoint(localProvider, endpointsCreated)
    IN  /\ localProvider' = got.provider
        /\ endpointsCreated' = got.created
        /\ providerLog' = Append(providerLog, ProviderReturn("getAllChatEndpoints", Undefined, Some(<<got.value>>),
                                         Undefined))
        /\ ProviderFrame /\ SvcUnchanged

\* getEmbeddingsEndpoint(_family): always rejects
getEmbeddingsEndpoint(family) ==
    /\ providerLog' = Append(providerLog, ProviderReturn("getEmbeddingsEndpoint", family, Undefined,
            Some("Embeddings not supported in local mode. Use local indexing instead.")))
    /\ UNCHANGED <<localProvider, endpointsCreated>>
    /\ ProviderFrame /\ SvcUnchanged

\* getAllCompletionModels(_forceRefresh): always []
getAllCompletionModels(forceRefresh) ==
    /\ providerLog' = Append(providerLog, ProviderReturn("getAllCompletionModels", Some(forceRefresh), Some(<<>>),
                                     Undefined))
    /\ UNCHANGED <<localProvider, endpointsCreated>>
    /\ ProviderFrame /\ SvcUnchanged

(***************************************************************************)
(* NullAutomodeService.                                                    *)
(***************************************************************************)

KnownEndpointPool ==
    {[ref |-> "endpoint-a", model |-> "local-llm"],
     [ref |-> "endpoint-b", model |-> "other-model"]}
KnownEndpointLists == SeqsUpTo(KnownEndpointPool, MaxEndpoints)
ChatRequests == {Undefined, Some("request-1")}
AutoReturn(op, chatRequest, known, value, err) ==
    [op |-> op, chatRequest |-> chatRequest, known |-> known, value |-> value, error |-> err]
NoEndpointsError == "No endpoints provided for auto mode."
AutoFrame ==
    UNCHANGED <<epVars, authVars, tokenVars, quotaVars, endpointsCreated, providerLog,
                capiNetwork, capiRet, capiRead, abExpContext, hostVars, bodyVars>>

\* an auto selection that takes the last known endpoint
selectedEndpointLast(knownEndpoints) == knownEndpoints[Len(knownEndpoints)]

\* const selectedEndpoint = knownEndpoints[0]
selectedEndpoint(knownEndpoints) == knownEndpoints[1]

\* createInstance(AutoChatEndpoint, selectedEndpoint, 'local-session-token', 0, {low: 0, high: 0})
NewAutoChatEndpoint(ref, wrapped) ==
    [ref |-> ref,
     wrapped |-> wrapped,
     sessionToken |-> "local-session-token",
     discountPercent |-> 0,
     discountRange |-> [low |-> 0, high |-> 0]]

\* resolveAutoModeEndpoint(_chatRequest, knownEndpoints)
resolveAutoModeEndpoint(chatRequest, knownEndpoints) ==
    /\ IF Len(knownEndpoints) = 0
       THEN /\ autoRet' = AutoReturn("resolveAutoModeEndpoint", chatRequest, knownEndpoints,
                                     Undefined, Some(NoEndpointsError))
            /\ UNCHANGED autoCreated
       ELSE /\ Len(autoCreated) < MaxWrappers
            /\ LET auto == NewAutoChatEndpoint(Len(autoCreated) + 1,
                                               selectedEndpoint(knownEndpoints))
               IN  /\ autoCreated' = Append(autoCreated, auto)
                   /\ autoRet' = AutoReturn("resolveAutoModeEndpoint", chatRequest,
                                            knownEndpoints, Some(auto), Undefined)
    /\ AutoFrame

(***************************************************************************)
(* NullCAPIClientImpl.                                                     *)
(***************************************************************************)
CapiRequests == {[method |-> "GET"], [method |-> "POST"]}
CapiRequestTypes == {"CopilotToken", "Models", "ChatCompletions"}
DomainValues == {Undefined, Some("token-1")}
EnterpriseValues == {Undefined, Some("ghe.example.com")}
AbExpContexts == {Undefined, Some("exp-1")}
CapiReturn(op, args, value, err) == [op |-> op, args |-> args, value |-> value, error |-> err]
CapiUnavailableError == "CAPI not available in local mode"
CapiFrame ==
    UNCHANGED <<epVars, authVars, tokenVars, quotaVars, endpointsCreated, providerLog,
                autoCreated, autoRet, hostVars, bodyVars>>

\* the getters proxyBaseURL, dotcomAPIURL, capiPingURL, copilotTelemetryURL
proxyBaseURL == <<"http://127.0.0.1:8777">>
dotcomAPIURL == <<"http://127.0.0.1:8777">>
capiPingURL == <<"http://127.0.0.1:8777", "/health">>
copilotTelemetryURL == <<>>

\* a makeRequest that forwards the request to the remote service
makeRequestRemote(request, requestMetadata) ==
    /\ capiNetwork' = Append(capiNetwork, [request |-> request, type |-> requestMetadata])
    /\ capiRet' = CapiReturn("makeRequest", <<request, requestMetadata>>, Some("response"),
                           Undefined)
    /\ UNCHANGED <<capiRead, abExpContext>>
    /\ CapiFrame

\* makeRequest(_request, _requestMetadata)
makeRequest(request, requestMetadata) ==
    /\ capiRet' = CapiReturn("makeRequest", <<request, requestMetadata>>, Undefined,
                           Some(CapiUnavailableError))
    /\ UNCHANGED <<capiNetwork, capiRead, abExpContext>>
    /\ CapiFrame

\* updateDomains(_moduleToken, _enterpriseValue)
updateDomains(moduleToken, enterpriseValue) ==
    /\ capiRet' = CapiReturn("updateDomains", <<moduleToken, enterpriseValue>>, Some(FALSE),
                           Undefined)
    /\ UNCHANGED <<capiNetwork, capiRead, abExpContext>>
    /\ CapiFrame

\* the host assigns the public field abExpContext
SetAbExpContext(v) ==
    /\ abExpContext' = v
    /\ UNCHANGED <<capiNetwork, capiRet, capiRead>>
    /\ CapiFrame

\* the host reads the four URL getters
ReadCapiUrls ==
    /\ capiRead' = Some([proxyBaseURL |-> proxyBaseURL,
                         dotcomAPIURL |-> dotcomAPIURL,
                         capiPingURL |-> capiPingURL,
                         copilotTelemetryURL |-> copilotTelemetryURL,
                         after |-> capiRet])
    /\ UNCHANGED <<capiNetwork, capiRet, abExpContext>>
    /\ CapiFrame

(***************************************************************************)
(* Activation: registerFakeAuthenticationProvider and                      *)
(* setLocalModeContextKeys.  Time passes from one due timer to the next.   *)
(***************************************************************************)
\* the values setKeys gives the context keys
LocalModeKeys ==
    [chatEntitlementSignedOut |-> FALSE, chatPlanPro |-> TRUE, chatPlanFree |-> FALSE,
     chatPlanBusiness |-> FALSE, chatPlanEnterprise |-> FALSE, chatPlanProPlus |-> FALSE,
     chatPlanCanSignUp |-> FALSE,
     chatSetupInstalled |-> TRUE, chatSetupRegistered |-> TRUE, chatSetupHidden |-> FALSE,
     chatSetupDisabled |-> FALSE, chatSetupUntrusted |-> FALSE, chatSetupLater |-> FALSE,
     chatQuotaExceeded |-> FALSE, completionsQuotaExceeded |-> FALSE,
     chatAnonymous |-> FALSE]
\* what the keys are before the extension sets them: the host of a signed-out user
HostDefaultKeys == [k \in DOMAIN LocalModeKeys |-> ~LocalModeKeys[k]]
\* the keys the host's ChatEntitlementService writes
HostOwnedKeys == {"chatEntitlementSignedOut", "chatPlanPro", "chatQuotaExceeded"}

TimeoutDelays == {500, 1500, 3000, 5000}
IntervalDelay == 10000
ContextTimers == TimeoutDelays \cup {IntervalDelay}
EmitDelay == 100

\* const setKeys = () => { commands.executeCommand('setContext', key, value); ... }
setKeys(keys) ==
    [k \in DOMAIN keys |-> IF k \in DOMAIN LocalModeKeys THEN LocalModeKeys[k] ELSE keys[k]]

\* the copies of registerFakeAuthenticationProvider: the one activate imports
\* and the one without timers
RegisterCopies == {"fakeAuthenticationProvider.ts", "part_000"}
HasTimers(copy) == copy = "fakeAuthenticationProvider.ts"

\* registerFakeAuthenticationProvider without its try / catch
registerFakeAuthenticationProviderUncaught(copy, registry) ==
    [copy |-> copy,
     registered |-> registry = "none",
     outcome |-> IF registry = "none" THEN "registration" ELSE "thrown",
     timer |-> IF HasTimers(copy) /\ registry = "none" THEN EmitDelay ELSE -1,
     callback |-> IF HasTimers(copy) /\ registry = "none" THEN "emit" ELSE "none",
     probe |-> "none",
     disposed |-> FALSE]

\* registerFakeAuthenticationProvider(context), by what the host's
\* registerAuthenticationProvider('github', ...) does: the call as it returns
registerFakeAuthenticationProvider(copy, registry) ==
    IF registry = "none"
    THEN [copy |-> copy, registered |-> TRUE, outcome |-> "registration",
          timer |-> IF HasTimers(copy) THEN EmitDelay ELSE -1,
          callback |-> IF HasTimers(copy) THEN "emit" ELSE "none",
          probe |-> "none", disposed |-> FALSE]
    ELSE [copy |-> copy, registered |-> FALSE, outcome |-> "noop",
          timer |-> IF HasTimers(copy) THEN EmitDelay ELSE -1,
          callback |-> IF HasTimers(copy) THEN "probe" ELSE "none",
          probe |-> "none", disposed |-> FALSE]

HostFrame == UNCHANGED <<epVars, authVars, tokenVars, quotaVars, svcVars, bodyVars>>

\* a caller other than activate registers the provider
RegisterCall(copy) ==
    /\ Len(regs) < MaxRegistrations - (IF activated THEN 0 ELSE 1)
    /\ LET call == registerFakeAuthenticationProvider(copy, authRegistry)
       IN  /\ regs' = Append(regs, call)
           /\ authRegistry' = IF call.registered THEN "fake" ELSE authRegistry
    /\ UNCHANGED <<activated, ctxKeys, ctxTimers, elapsed, setRuns, sessionEvents>>
    /\ HostFrame

\* activate(context): registers the provider, then setLocalModeContextKeys()
\* runs setKeys and starts its four timeouts and its interval
activate ==
    /\ ~activated
    /\ LET call == registerFakeAuthenticationProvider("fakeAuthenticationProvider.ts",
                                                      authRegistry)
       IN  /\ regs' = Append(regs, call)
           /\ authRegistry' = IF call.registered THEN "fake" ELSE authRegistry
    /\ activated' = TRUE
    /\ ctxKeys' = setKeys(ctxKeys)
    /\ setRuns' = <<0>>
    /\ elapsed' = 0
    /\ ctxTimers' = [t \in ContextTimers |-> t]
    /\ UNCHANGED sessionEvents
    /\ HostFrame

\* the countdowns of the pending timers
PendingCountdowns ==
    {ctxTimers[t] : t \in {u \in ContextTimers : ctxTimers[u] >= 0}}
        \cup {regs[i].timer : i \in {j \in DOMAIN regs : regs[j].timer >= 0}}
MinOf(S) == CHOOSE m \in S : \A n \in S : m <= n
CountDown(n, m) == IF n >= 0 THEN n - m ELSE n

\* time passes until the next timer is due
Advance ==
    /\ PendingCountdowns /= {}
    /\ LET m == MinOf(PendingCountdowns)
       IN  /\ m > 0
           /\ ctxTimers' = [t \in ContextTimers |-> CountDown(ctxTimers[t], m)]
           /\ regs' = [i \in DOMAIN regs |->
                          [regs[i] EXCEPT !.timer = CountDown(regs[i].timer, m)]]
           /\ elapsed' = IF activated /\ Len(setRuns) < MaxRuns THEN elapsed + m ELSE elapsed
    /\ UNCHANGED <<activated, ctxKeys, setRuns, authRegistry, sessionEvents>>
    /\ HostFrame

\* every timer, the interval too, runs setKeys once only
TimerFiresOnce(t) ==
    /\ ctxTimers[t] = 0
    /\ ctxKeys' = setKeys(ctxKeys)
    /\ ctxTimers' = [ctxTimers EXCEPT ![t] = -1]
    /\ setRuns' = IF Len(setRuns) < MaxRuns THEN Append(setRuns, elapsed) ELSE setRuns
    /\ UNCHANGED <<activated, elapsed, authRegistry, regs, sessionEvents>>
    /\ HostFrame

\* setTimeout(setKeys, t) or setInterval(setKeys, 10000) comes due
TimerFires(t) ==
    /\ ctxTimers[t] = 0
    /\ ctxKeys' = setKeys(ctxKeys)
    /\ ctxTimers' = [ctxTimers EXCEPT ![t] = IF t = IntervalDelay THEN IntervalDelay ELSE -1]
    /\ setRuns' = IF Len(setRuns) < MaxRuns THEN Append(setRuns, elapsed) ELSE setRuns
    /\ UNCHANGED <<activated, elapsed, authRegistry, regs, sessionEvents>>
    /\ HostFrame

\* emitSessionChange(): the event the provider fires
SessionChangeEvent == [added |-> <<FakeSession>>, removed |-> <<>>, changed |-> <<>>]

\* setTimeout(() => provider.emitSessionChange(), 100) comes due
EmitFires(i) ==
    /\ regs[i].timer = 0
    /\ regs[i].callback = "emit"
    /\ sessionEvents' = Append(sessionEvents, [call |-> i, event |-> SessionChangeEvent])
    /\ regs' = [regs EXCEPT ![i].timer = -1]
    /\ UNCHANGED <<activated, ctxKeys, ctxTimers, elapsed, setRuns, authRegistry>>
    /\ HostFrame

\* the timeout of the catch branch comes due: await vscode.authentication.getSession(...)
ProbeFires(i) ==
    /\ regs[i].timer = 0
    /\ regs[i].callback = "probe"
    /\ regs' = [regs EXCEPT ![i].timer = -1, ![i].probe = "awaiting"]
    /\ UNCHANGED <<activated, ctxKeys, ctxTimers, elapsed, setRuns, authRegistry, sessionEvents>>
    /\ HostFrame

\* getSession resolves, or rejects and the catch block ignores it
ProbeSettles(i, rejected) ==
    /\ regs[i].probe = "awaiting"
    /\ regs' = [regs EXCEPT ![i].probe = IF rejected THEN "swallowed" ELSE "resolved"]
    /\ UNCHANGED <<activated, ctxKeys, ctxTimers, elapsed, setRuns, authRegistry, sessionEvents>>
    /\ HostFrame

\* the host disposes what the call returned: the registration's disposable
\* unregisters the provider, { dispose: () => {} } does nothing
Dispose(i) ==
    /\ ~regs[i].disposed
    /\ regs' = [regs EXCEPT ![i].disposed = TRUE]
    /\ authRegistry' = IF regs[i].outcome = "registration" THEN "none" ELSE authRegistry
    /\ UNCHANGED <<activated, ctxKeys, ctxTimers, elapsed, setRuns, sessionEvents>>
    /\ HostFrame

\* another extension registers a provider for 'github' first
OtherProviderRegisters ==
    /\ authRegistry = "none"
    /\ authRegistry' = "other"
    /\ UNCHANGED <<activated, ctxKeys, ctxTimers, elapsed, setRuns, regs, sessionEvents>>
    /\ HostFrame

\* the host's ChatEntitlementService writes one of its keys
HostOverwrite(k, v) ==
    /\ ctxKeys[k] /= v
    /\ ctxKeys' = [ctxKeys EXCEPT ![k] = v]
    /\ UNCHANGED <<activated, ctxTimers, elapsed, setRuns, authRegistry, regs, sessionEvents>>
    /\ HostFrame

(***************************************************************************)
(* interceptBody on a body in memory.  The body's messages are references  *)
(* to message objects, so that a copy differs from the object it copies.   *)
(***************************************************************************)
FullCopilotMessage ==
    [role |-> "user", content |-> <<"q">>, name |-> "n",
     copilot_references |-> <<"ref-1">>, copilot_confirmations |-> <<"conf-1">>,
     copilot_cache_control |-> "ephemeral"]
\* the messages of a body: absent, [], or some message objects
MessageLists ==
    {Undefined, Some(<<>>), Some(<<UserMessage>>), Some(<<CachedMessage, UserMessage>>),
     Some(<<FullCopilotMessage, CachedMessage>>)}
\* the endpoints interceptBody runs on: with and without tool-call support
InterceptEndpoints ==
    {NewLocalLlmEndpoint([createLocalModelMetadata EXCEPT !.supports.tool_calls = t],
                         DefaultServerUrl) : t \in BOOLEAN}
\* the body createRequestBody gives, with the Copilot fields the host added
WithFields(body, fields) ==
    [k \in DOMAIN body \cup fields |-> IF k \in DOMAIN body THEN body[k] ELSE "copilot-value"]
RequestBody(ep, messages, tools, fields) ==
    LET refs == IF messages = Undefined THEN Undefined
                ELSE Some([i \in DOMAIN messages[1] |-> i])
        o == [messages |-> refs, maxOutputTokens |-> Undefined, temperature |-> Some(0),
              topP |-> Undefined, tools |-> tools]
    IN  WithFields(createRequestBody(ep, o), fields)

\* the body with the contents of its messages in place of the references
Deref(heap, body) ==
    IF "messages" \in DOMAIN body
    THEN Put(body, "messages", [i \in DOMAIN body.messages |-> heap[body.messages[i]]])
    ELSE body

\* an interceptBody that deletes the fields on the caller's message objects
interceptBodyInPlace(ep, heap, body) ==
    IF body = Undefined THEN [heap |-> heap, body |-> body]
    ELSE LET out == interceptBody(ep, Deref(heap, body[1]))
         IN  IF "messages" \in DOMAIN out
             THEN [heap |-> [r \in DOMAIN heap |->
                               IF \E i \in DOMAIN out.messages : body[1].messages[i] = r
                               THEN DeleteAll(heap[r], CopilotMessageFields) ELSE heap[r]],
                   body |-> Some(Put(out, "messages", body[1].messages))]
             ELSE [heap |-> heap, body |-> Some(out)]

\* interceptBody(body) in memory: `if (!body) return`, the deletes on the
\* body, and body.messages = body.messages.map(msg => ({ ...msg } cleaned)),
\* which allocates one new object per message
interceptBodyInMemory(ep, heap, body) ==
    IF body = Undefined THEN [heap |-> heap, body |-> body]
    ELSE LET out == interceptBody(ep, Deref(heap, body[1]))
         IN  IF "messages" \in DOMAIN out
             THEN [heap |-> heap \o out.messages,
                   body |-> Some(Put(out, "messages",
                                     [i \in DOMAIN out.messages |-> Len(heap) + i]))]
             ELSE [heap |-> heap, body |-> Some(out)]

BodyFrame == UNCHANGED <<epVars, authVars, tokenVars, quotaVars, svcVars, hostVars>>

\* the caller builds a body (or has none) for an endpoint
CallerBuildsBody(ep, messages, tools, fields, none) ==
    /\ ibCaller = Undefined
    /\ ibEndpoint' = ep
    /\ ibHeap' = IF messages = Undefined \/ none THEN <<>> ELSE messages[1]
    /\ ibBody' = IF none THEN Undefined ELSE Some(RequestBody(ep, messages, tools, fields))
    /\ ibCaller' = Some([body |-> ibBody', heap |-> ibHeap'])
    /\ UNCHANGED <<ibRuns, ibFirst>>
    /\ BodyFrame

\* endpoint.interceptBody(body)
InterceptBody ==
    /\ ibCaller /= Undefined
    /\ ibRuns < MaxIntercepts
    /\ LET after == interceptBodyInMemory(ibEndpoint, ibHeap, ibBody)
       IN  /\ ibHeap' = after.heap
           /\ ibBody' = after.body
           /\ ibFirst' = IF ibRuns = 0 /\ after.body /= Undefined
                         THEN Some(Deref(after.heap, after.body[1])) ELSE ibFirst
    /\ ibRuns' = ibRuns + 1
    /\ UNCHANGED <<ibEndpoint, ibCaller>>
    /\ BodyFrame

(***************************************************************************)
(* Initial states and specifications.                                      *)
(***************************************************************************)
InitWith(urls) ==
    /\ localProvider \in {NewLocalEndpointProvider(u) : u \in urls}
    /\ endpoint = NewLocalLlmEndpoint(createLocalModelMetadata, localProvider._serverUrl)
    /\ pc = [c \in Calls |-> "idle"]
    /\ opts = [c \in Calls |-> Undefined]
    /\ requests = [c \in Calls |-> <<>>]
    /\ resp = [c \in Calls |-> Undefined]
    /\ parsed = [c \in Calls |-> Undefined]
    /\ arrays = [c \in Calls |-> <<>>]
    /\ cbLog = [c \in Calls |-> <<>>]
    /\ pending = [c \in Calls |-> Undefined]
    /\ result = [c \in Calls |-> Undefined]
    /\ error = [c \in Calls |-> Undefined]
    /\ provider = [_session |-> FakeSession]
    /\ authRet = AuthReturn("none", <<>>, {})
    /\ mgrToken = Undefined
    /\ svcToken = Undefined
    /\ tokenRet = [h \in Holders |-> TokenReturn("none", "none", Undefined)]
    /\ sinceReset = [h \in Holders |-> {}]
    /\ beforeReset = [h \in Holders |-> Undefined]
    /\ nextRef = [h \in Holders |-> 1]
    /\ now = 0
    /\ quotaCalls = [headers |-> Undefined, cleared |-> FALSE]
    /\ quotaRead = Undefined
    /\ endpointsCreated = <<>>
    /\ providerLog = <<>>
    /\ autoCreated = <<>>
    /\ autoRet = AutoReturn("none", Undefined, <<>>, Undefined, Undefined)
    /\ capiNetwork = <<>>
    /\ capiRet = CapiReturn("none", <<>>, Undefined, Undefined)
    /\ capiRead = Undefined
    /\ abExpContext = Undefined
    /\ activated = FALSE
    /\ ctxKeys = HostDefaultKeys
    /\ ctxTimers = [t \in ContextTimers |-> -1]
    /\ elapsed = 0
    /\ setRuns = <<>>
    /\ authRegistry = "none"
    /\ regs = <<>>
    /\ sessionEvents = <<>>
    /\ ibEndpoint = endpoint
    /\ ibHeap = <<>>
    /\ ibBody = Undefined
    /\ ibCaller = Undefined
    /\ ibRuns = 0
    /\ ibFirst = Undefined

Init == InitWith(ConfiguredUrls)
InitLocal == InitWith({<<>>})

\* one call of makeChatRequest2 / makeChatRequest, any options, any response
CallSteps(c, options, responses) ==
    \/ \E o \in options : o.entry = "makeChatRequest2" /\ makeChatRequest2(c, o)
    \/ \E o \in options : makeChatRequest(c, o)
    \/ FetchRejects(c)
    \/ \E r \in responses : FetchResolves(c, r)
    \/ TextResolves(c)
    \/ \E uuid \in UUIDs : JsonInvoke(c, uuid)
    \/ JsonResume(c)
    \/ StreamThrows(c)
    \/ StreamCallback(c)
    \/ StreamYield(c)
    \/ Finish(c)

Next == CallSteps(1, AllOptions, AllResponses)
Spec == Init /\ [][Next]_vars

\* several calls in flight on the same endpoint instance, interleaved at their awaits
NextConcurrent == \E c \in Calls : CallSteps(c, FewOptions, FewResponses)
SpecConcurrent == InitLocal /\ [][NextConcurrent]_vars

NextAuth ==
    \/ \E scopes \in ScopeLists : getSessions(scopes)
    \/ \E scopes \in ScopeLists : createSession(scopes)
    \/ \E id \in SessionIds : removeSession(id)
    \/ \E h \in QuotaHeaderSets : processQuotaHeaders(h)
    \/ clearQuota
    \/ ReadQuota
SpecLocalServices == InitLocal /\ [][NextAuth]_vars

HttpErrors == {401, 403}
NextToken ==
    \/ \E force \in BOOLEAN : ManagerGetCopilotToken(force)
    \/ \E e \in HttpErrors : ManagerResetCopilotToken(e)
    \/ \E force \in BOOLEAN : ServiceGetCopilotToken(force)
    \/ ServiceCopilotTokenGetter
    \/ \E e \in HttpErrors : ServiceResetCopilotToken(e)
    \/ Tick
SpecToken == InitLocal /\ [][NextToken]_vars

\* the endpoint provider, called by the host
NextProvider ==
    \/ \E arg \in EndpointRequests : getChatEndpoint(arg)
    \/ getAllChatEndpoints
    \/ \E family \in {Undefined, Some("text3small")} : getEmbeddingsEndpoint(family)
    \/ \E forceRefresh \in BOOLEAN : getAllCompletionModels(forceRefresh)
SpecProvider == Init /\ [][NextProvider]_vars

\* activation, the timers it starts, and the host around it; the event loop
\* runs every timer that is due and time does not stop
NextActivate ==
    \/ activate
    \/ Advance
    \/ \E t \in ContextTimers : TimerFires(t)
    \/ \E i \in DOMAIN regs : EmitFires(i)
    \/ \E i \in DOMAIN regs : ProbeFires(i)
    \/ \E i \in DOMAIN regs, rejected \in BOOLEAN : ProbeSettles(i, rejected)
    \/ OtherProviderRegisters
    \/ \E k \in HostOwnedKeys, v \in BOOLEAN : HostOverwrite(k, v)
SpecActivate ==
    /\ InitLocal
    /\ [][NextActivate]_vars
    /\ WF_vars(Advance)
    /\ WF_vars(\E t \in ContextTimers : TimerFires(t))
    /\ WF_vars(\E i \in DOMAIN regs : EmitFires(i))
    /\ WF_vars(\E i \in DOMAIN regs : ProbeFires(i))

\* registerFakeAuthenticationProvider, called by activate and by other
\* callers, its timers, and the host disposing what it returned
NextRegister ==
    \/ activate
    \/ \E copy \in RegisterCopies : RegisterCall(copy)
    \/ Advance
    \/ \E t \in ContextTimers : TimerFires(t)
    \/ \E i \in DOMAIN regs : EmitFires(i)
    \/ \E i \in DOMAIN regs : ProbeFires(i)
    \/ \E i \in DOMAIN regs, rejected \in BOOLEAN : ProbeSettles(i, rejected)
    \/ \E i \in DOMAIN regs : Dispose(i)
    \/ OtherProviderRegisters
SpecRegister == InitLocal /\ [][NextRegister]_vars

\* interceptBody, applied to the bodies a caller can hand it
NextInterceptBody ==
    \/ \E ep \in InterceptEndpoints, messages \in MessageLists,
          tools \in {Undefined, Some(<<"tool-a">>)}, fields \in SUBSET CopilotBodyFields :
            CallerBuildsBody(ep, messages, tools, fields, FALSE)
    \/ \E ep \in InterceptEndpoints : CallerBuildsBody(ep, Undefined, Undefined, {}, TRUE)
    \/ InterceptBody
SpecInterceptBody == InitLocal /\ [][NextInterceptBody]_vars

\* the automode service and the CAPI client, called by the host
NextNullServices ==
    \/ \E r \in ChatRequests, known \in KnownEndpointLists : resolveAutoModeEndpoint(r, known)
    \/ \E request \in CapiRequests, type \in CapiRequestTypes : makeRequest(request, type)
    \/ \E t \in DomainValues, e \in EnterpriseValues : updateDomains(t, e)
    \/ \E v \in AbExpContexts : SetAbExpContext(v)
    \/ ReadCapiUrls
SpecNullServices == InitLocal /\ [][NextNullServices]_vars


(***************************************************************************)
(* Properties of LocalLlmEndpoint.                                         *)
(***************************************************************************)
Responded(c) == resp[c] /= Undefined
ResponseOf(c) == resp[c][1]
\* the response's content-type names an event stream (as the server wrote it)
SentAsEventStream(c) == ResponseOf(c).contentType \in EventStreamTypes
\* the number of choices of the answer in the response's body
ChoicesSent(c) ==
    IF ResponseOf(c).answer = Undefined THEN 0 ELSE Len(ResponseOf(c).answer[1].choices)
IsYield(ev) == ev.kind = "yield"
IsCallback(ev) == ev.kind = "callback"
\* the FinishedCompletions, and the callback invocations, of the processor's stream
YieldsSent(c) == SelectSeq(ResponseOf(c).events, IsYield)
CallbacksSent(c) == SelectSeq(ResponseOf(c).events, IsCallback)
IndicesOf(completions) == [i \in DOMAIN completions |-> completions[i].choiceIndex]
UpTo(n) == [i \in 1..n |-> i - 1]

\* C1: a response that is not OK makes the call (through makeChatRequest2 or
\* makeChatRequest) throw an error carrying the status before anything is
\* processed: no finished-callback invocation, no completion, no ChatResponse.
C1_NonOkThrows ==
    \A c \in Calls :
        (Responded(c) /\ ~ResponseOf(c).ok) =>
            /\ pc[c] = "thrown"
            /\ error[c] = Some([name |-> "Error",
                                message |-> <<"Local LLM request failed: ", ResponseOf(c).status,
                                              " ", ResponseOf(c).statusText>>])
            /\ cbLog[c] = <<>>
            /\ arrays[c] = <<>>
            /\ parsed[c] = Undefined
            /\ result[c] = Undefined
C1_Witness ==
    \E c \in Calls :
        /\ Responded(c) /\ ResponseOf(c).status = 404
        /\ ResponseOf(c).answer /= Undefined
        /\ opts[c][1].entry = "makeChatRequest" /\ opts[c][1].finishedCb = "cb"
        /\ pc[c] = "thrown"

\* C2: in the non-streaming path the finished-callback is invoked once per
\* choice in the order 0..n-1, the next choice is not touched before the
\* previous invocation has settled, and the call returns n completions with
\* choiceIndex 0..n-1 (n = 0 for a body with no choices field).
C2_JsonPath(c) == Responded(c) /\ pc[c] \in {"loop", "awaitCallback", "done"} /\ ~SentAsEventStream(c)
C2_OnePerChoiceInOrder ==
    \A c \in Calls :
        C2_JsonPath(c) =>
            /\ [i \in DOMAIN cbLog[c] |-> cbLog[c][i].index] = UpTo(Len(cbLog[c]))
            /\ IndicesOf(arrays[c]) = UpTo(Len(arrays[c]))
            /\ Len(cbLog[c]) <= ChoicesSent(c)
            /\ Len(cbLog[c]) = Len(arrays[c]) + (IF pc[c] = "awaitCallback" THEN 1 ELSE 0)
            /\ pc[c] = "done" => Len(arrays[c]) = ChoicesSent(c)
C2_Witness ==
    \E c \in Calls :
        /\ C2_JsonPath(c) /\ pc[c] = "done"
        /\ ChoicesSent(c) = 2 /\ Len(cbLog[c]) = 2 /\ IndicesOf(arrays[c]) = <<0, 1>>

\* C3: a response whose content-type contains 'text/event-stream' gives one
\* ChatCompletion per FinishedCompletion the processor yielded, in that order,
\* with its index, its reason and its joined text; any other content-type is
\* handled by the non-streaming path.
C3_StreamConversion ==
    \A c \in Calls :
        Responded(c) /\ ResponseOf(c).ok =>
            IF SentAsEventStream(c)
            THEN /\ pc[c] \in {"stream", "done", "thrown"}
                 /\ parsed[c] = Undefined
                 /\ Len(arrays[c]) <= Len(YieldsSent(c))
                 /\ \A i \in DOMAIN arrays[c] :
                        LET fc == YieldsSent(c)[i].item
                        IN  /\ arrays[c][i].choiceIndex = fc.index
                            /\ arrays[c][i].finishReason = fc.reason
                            /\ arrays[c][i].message.content = Some(Join(fc.solution.text))
                 /\ pc[c] = "done" => Len(arrays[c]) = Len(YieldsSent(c))
            ELSE /\ pc[c] \in {"text", "loop", "awaitCallback", "done", "thrown"}
                 /\ \A i \in DOMAIN arrays[c] : arrays[c][i].tokens = <<>>
C3_Witness ==
    \E c \in Calls :
        /\ Responded(c) /\ SentAsEventStream(c) /\ pc[c] = "done"
        /\ Len(arrays[c]) = 2
        /\ IndicesOf(arrays[c]) = <<1, 0>>
        /\ arrays[c][1].message.content = Some(<<"a", "b">>)

\* C4: the same logical answer delivered as an event stream and as one JSON
\* body gives the same completions (message content and tool calls, tokens,
\* blockFinished, finishReason, model, usage), and the finished-callback is
\* invoked in both paths.  The message role is left out of the comparison: the
\* streaming path writes Raw.ChatRole.Assistant, whose encoding is defined
\* outside this code.
ToolCallsOf(message) == IF "toolCalls" \in DOMAIN message THEN message.toolCalls ELSE Undefined
SameCompletion(x, y) ==
    /\ getTextPart(x.message.content) = getTextPart(y.message.content)
    /\ ToolCallsOf(x.message) = ToolCallsOf(y.message)
    /\ x.tokens = y.tokens
    /\ x.blockFinished = y.blockFinished
    /\ x.finishReason = y.finishReason
    /\ x.model = y.model
    /\ x.usage = y.usage
C4_SameRepresentation ==
    \A c1, c2 \in Calls :
        (/\ pc[c1] = "done" /\ pc[c2] = "done"
         /\ SentAsEventStream(c1) /\ ~SentAsEventStream(c2)
         /\ ResponseOf(c1).answer /= Undefined
         /\ ResponseOf(c1).answer = ResponseOf(c2).answer) =>
            /\ Len(arrays[c1]) = Len(arrays[c2])
            /\ \A i \in DOMAIN arrays[c1] : SameCompletion(arrays[c1][i], arrays[c2][i])
            /\ (cbLog[c1] = <<>>) = (cbLog[c2] = <<>>)

\* C5: a call issues exactly one HTTP request whatever happens afterwards: a
\* POST to <serverUrl>/v1/chat/completions, serverUrl being the configured URL
\* or 'http://127.0.0.1:8777' when none is configured, with stream: true.
C5_OneRequest ==
    \A c \in Calls :
        IF pc[c] = "idle" THEN requests[c] = <<>>
        ELSE /\ Len(requests[c]) = 1
             /\ requests[c][1].method = "POST"
             /\ requests[c][1].url =
                    (IF localProvider.configured = <<>> THEN <<"http://127.0.0.1:8777">>
                     ELSE localProvider.configured) \o <<"/v1/chat/completions">>
             /\ endpoint.serverUrl = localProvider._serverUrl
             /\ requests[c][1].body.stream = TRUE
C5_Witness ==
    \E c \in Calls :
        /\ pc[c] = "thrown" /\ ~Responded(c)
        /\ localProvider.configured = <<>>
        /\ requests[c] /= <<>>
        /\ requests[c][1].url = <<"http://127.0.0.1:8777", "/v1/chat/completions">>


\* what a call running alone makes of its own response: the callback
\* invocations, and the completions up to their request ids
ExpectedCallbacks(c) ==
    IF SentAsEventStream(c) THEN [i \in DOMAIN CallbacksSent(c) |-> CallbacksSent(c)[i].call]
    ELSE [i \in 1..ChoicesSent(c) |-> JsonCallbackArgs(ResponseOf(c).text.json, i - 1)]
ExpectedCompletion(c, i, completion) ==
    IF SentAsEventStream(c)
    THEN completion = StreamCompletion(YieldsSent(c)[i].item, i - 1, TelemetryFor(c))
    ELSE \E id \in (IF ResponseOf(c).xRequestId = Undefined THEN UUIDs
                    ELSE {ResponseOf(c).xRequestId[1]}) :
             completion = JsonCompletion(ResponseOf(c).text.json, i - 1, id, TelemetryFor(c))
IsPrefix(p, q) == Len(p) <= Len(q) /\ \A i \in DOMAIN p : p[i] = q[i]

\* C6 as stated: what a call returns and the callback invocations it makes
\* depend only on its own options and response, so two finished calls with
\* the same options and the same response agree on both.
C6_SameInputsSameOutputs ==
    \A c1, c2 \in Calls :
        (pc[c1] = "done" /\ pc[c2] = "done" /\ opts[c1] = opts[c2] /\ resp[c1] = resp[c2]) =>
            result[c1] = result[c2] /\ cbLog[c1] = cbLog[c2]

\* C6 amended: interleaved calls do not affect each other and leave the
\* endpoint's fields as constructed; a call's callback invocations and
\* completions are those of its own response, and its ChatResponse is made
\* of its own last completion, the request id of a JSON response without an
\* X-Request-ID header being a UUID generated for each choice.
C6_CallsIndependent ==
    /\ endpoint = [model |-> "local-llm", serverUrl |-> localProvider._serverUrl,
                   maxTokens |-> 128000, maxOutputTokens |-> 16384, supportsToolCalls |-> TRUE]
    /\ \A c \in Calls :
        (Responded(c) /\ pc[c] \in {"loop", "awaitCallback", "stream", "done"}) =>
            /\ IsPrefix(cbLog[c], ExpectedCallbacks(c))
            /\ \A i \in DOMAIN arrays[c] : ExpectedCompletion(c, i, arrays[c][i])
            /\ pc[c] = "done" =>
                /\ cbLog[c] = ExpectedCallbacks(c)
                /\ Len(arrays[c]) = ChoicesSent(c)
                /\ result[c] /= Undefined
                /\ result[c][1].resolvedModel = "local-llm"
                /\ result[c][1].usage =
                       (IF arrays[c] = <<>> THEN Undefined ELSE Last(arrays[c]).usage)
                /\ result[c][1].value =
                       (IF arrays[c] = <<>> THEN <<>>
                        ELSE getTextPart(Last(arrays[c]).message.content))
                /\ result[c][1].requestId =
                       (IF arrays[c] = <<>> THEN <<>>
                        ELSE Last(arrays[c]).requestId.headerRequestId)
C6_Witness ==
    /\ pc[1] = "done" /\ pc[2] = "done"
    /\ opts[1] /= opts[2]
    /\ SentAsEventStream(1) /\ ~SentAsEventStream(2)
    /\ arrays[1] /= <<>> /\ arrays[2] /= <<>>
    /\ cbLog[1] /= cbLog[2]


(***************************************************************************)
(* Properties of the fake authentication provider, the fake token and the  *)
(* null quota service.                                                     *)
(***************************************************************************)
\* C7: the provider always has exactly one session: whatever was called
\* before, getSessions returns a one-element list holding the constant
\* session 'fake-github-session', and createSession returns that same object.
C7_AlwaysOneSession ==
    /\ provider._session.id = "fake-github-session"
    /\ provider._session.ref = "session-0"
    /\ authRet.op \in {"getSessions", "createSession"} =>
           /\ Len(authRet.value) = 1
           /\ authRet.value[1] = provider._session
           /\ authRet.value[1].ref = "session-0"
           /\ authRet.value[1].id = "fake-github-session"
           /\ authRet.value[1].scopes = <<"user:email", "read:user", "repo", "workflow">>
C7_Witness ==
    /\ authRet.op = "getSessions"
    /\ authRet.removed = {"fake-github-session", "some-other-session"}
    /\ Len(authRet.value) = 1

\* C8: resetCopilotToken of NullCopilotTokenManager changes nothing: the
\* token getCopilotToken gives after a reset is the token it gave before it.
C8_ResetIsNoOp ==
    LET h == "NullCopilotTokenManager"
    IN  (/\ beforeReset[h] /= Undefined
         /\ tokenRet[h].op = "getCopilotToken"
         /\ tokenRet[h].after = "resetCopilotToken") =>
            tokenRet[h].value = beforeReset[h]

\* C9: both token holders always give a defined, unexpired token, also from
\* the copilotToken getter right after a reset, and between two resets every
\* call gives the same token object.
C9_TokenAlwaysAvailable ==
    \A h \in Holders :
        /\ Cardinality(sinceReset[h]) <= 1
        /\ tokenRet[h].op \in {"getCopilotToken", "copilotToken"} =>
               /\ tokenRet[h].value /= Undefined
               /\ tokenRet[h].value[1].chat_enabled
               /\ tokenRet[h].value[1].expires_at > now
               /\ sinceReset[h] = {tokenRet[h].value[1].ref}
               /\ tokenRet[h].value =
                      (IF h = "NullCopilotTokenManager" THEN mgrToken ELSE svcToken)
C9_Witness ==
    LET h == "NullAuthenticationService"
    IN  /\ tokenRet[h].op = "copilotToken"
        /\ tokenRet[h].after = "resetCopilotToken"
        /\ beforeReset[h] /= Undefined
        /\ tokenRet[h].value /= Undefined
        /\ tokenRet["NullCopilotTokenManager"].op = "getCopilotToken"
        /\ tokenRet["NullCopilotTokenManager"].after = "getCopilotToken"

\* C10: the quota service never reports exhausted quota: whatever headers
\* were processed and whether or not the quota was cleared, quotaExhausted
\* reads false and overagesEnabled reads true.
C10_NeverExhausted ==
    quotaRead /= Undefined =>
        /\ quotaRead[1].quotaExhausted = FALSE
        /\ quotaRead[1].overagesEnabled = TRUE
C10_Witness ==
    /\ quotaRead /= Undefined
    /\ quotaRead[1].calls.headers = Some([remaining |-> 0, overage_permitted |-> FALSE])
    /\ quotaRead[1].calls.cleared


(***************************************************************************)
(* Properties of LocalEndpointProvider, NullAutomodeService and            *)
(* NullCAPIClientImpl.                                                     *)
(***************************************************************************)
ReturnsOf(op) == {i \in DOMAIN providerLog : providerLog[i].op = op}

\* C11: whatever the argument and the order of the getChatEndpoint and
\* getAllChatEndpoints calls, the provider constructs at most one
\* LocalLlmEndpoint (for its own server URL); every getChatEndpoint resolves
\* to that instance and every getAllChatEndpoints resolves to the one-element
\* list holding that instance.
C11_SingleInstance ==
    /\ Len(endpointsCreated) <= 1
    /\ \A i \in ReturnsOf("getChatEndpoint") :
           /\ providerLog[i].error = Undefined
           /\ providerLog[i].value = Some(endpointsCreated[1])
    /\ \A i \in ReturnsOf("getAllChatEndpoints") :
           /\ providerLog[i].error = Undefined
           /\ providerLog[i].value = Some(<<endpointsCreated[1]>>)
    /\ \A i \in DOMAIN endpointsCreated :
           /\ localProvider._chatEndpoint = Some(endpointsCreated[i])
           /\ endpointsCreated[i].endpoint.model = "local-llm"
           /\ endpointsCreated[i].endpoint.serverUrl = localProvider._serverUrl

\* getAllChatEndpoints, getChatEndpoint for one argument and getChatEndpoint
\* for another have all been answered, in this order
C11_Witness ==
    /\ Len(providerLog) = 3
    /\ providerLog[1].op = "getAllChatEndpoints"
    /\ providerLog[2].op = "getChatEndpoint"
    /\ providerLog[3].op = "getChatEndpoint"
    /\ providerLog[2].arg /= providerLog[3].arg
    /\ Len(endpointsCreated) = 1

\* C12: for a non-empty knownEndpoints list resolveAutoModeEndpoint resolves
\* to a new wrapper of knownEndpoints[0], whatever the chat request, with
\* discount 0 and discount range {0, 0}; for an empty list it rejects with
\* 'No endpoints provided for auto mode.' and instantiates no wrapper.
C12_FirstEndpointOrReject ==
    [][(autoRet' /= autoRet \/ autoCreated' /= autoCreated) =>
          /\ autoRet'.op = "resolveAutoModeEndpoint"
          /\ IF autoRet'.known = <<>>
             THEN /\ autoRet'.value = Undefined
                  /\ autoRet'.error = Some("No endpoints provided for auto mode.")
                  /\ autoCreated' = autoCreated
             ELSE /\ autoRet'.error = Undefined
                  /\ autoRet'.value /= Undefined
                  /\ autoRet'.value[1].wrapped = Head(autoRet'.known)
                  /\ autoRet'.value[1].discountPercent = 0
                  /\ autoRet'.value[1].discountRange = [low |-> 0, high |-> 0]
                  /\ autoCreated' = Append(autoCreated, autoRet'.value[1])]_vars

\* a list of two different endpoints was resolved for a chat request, after
\* an earlier resolution
C12_Witness ==
    /\ autoRet.op = "resolveAutoModeEndpoint"
    /\ autoRet.chatRequest /= Undefined
    /\ Len(autoRet.known) = 2
    /\ autoRet.known[1] /= autoRet.known[2]
    /\ autoRet.value /= Undefined
    /\ Len(autoCreated) = 2

\* C13: makeRequest rejects with 'CAPI not available in local mode' for every
\* request and metadata and performs no network operation; updateDomains
\* returns false for every input; the four URL getters give the same
\* constants before and after any makeRequest / updateDomains call.
C13_NoRemoteCalls ==
    /\ capiNetwork = <<>>
    /\ capiRet.op = "makeRequest" =>
           /\ capiRet.value = Undefined
           /\ capiRet.error = Some("CAPI not available in local mode")
    /\ capiRet.op = "updateDomains" =>
           /\ capiRet.value = Some(FALSE)
           /\ capiRet.error = Undefined
    /\ capiRead /= Undefined =>
           /\ capiRead[1].proxyBaseURL = <<"http://127.0.0.1:8777">>
           /\ capiRead[1].dotcomAPIURL = <<"http://127.0.0.1:8777">>
           /\ capiRead[1].capiPingURL = <<"http://127.0.0.1:8777", "/health">>
           /\ capiRead[1].copilotTelemetryURL = <<>>

\* the getters were read after a makeRequest, and an updateDomains call with
\* both arguments given followed
C13_Witness ==
    /\ capiRead /= Undefined
    /\ capiRead[1].after.op = "makeRequest"
    /\ capiRet.op = "updateDomains"
    /\ capiRet.args = <<Some("token-1"), Some("ghe.example.com")>>


(***************************************************************************)
(* Properties of activation.                                               *)
(***************************************************************************)
\* when the i-th run of setKeys is due, in ms after activate
ExpectedRunTime(i) ==
    IF i <= 5 THEN <<0, 500, 1500, 3000, 5000>>[i] ELSE 10000 * (i - 5)

\* C14: after activate, setKeys sets the full key set at once, again 500,
\* 1500, 3000 and 5000 ms later and then every 10000 ms without end, so that
\* whenever the host has overwritten a key, the keys are eventually back at
\* their local-mode values.
C14_KeysReasserted ==
    /\ [](\A i \in DOMAIN setRuns : setRuns[i] = ExpectedRunTime(i))
    /\ [](activated => /\ setRuns /= <<>>
                       /\ ctxTimers[10000] >= 0)
    /\ (activated /\ ctxTimers[10000] > 0) ~> (ctxTimers[10000] = 0)
    /\ (ctxTimers[10000] = 0) ~> (ctxTimers[10000] = 10000 /\ ctxKeys = LocalModeKeys)
    /\ (activated /\ ctxKeys /= LocalModeKeys) ~> (ctxKeys = LocalModeKeys)

\* the host has overwritten chatEntitlementSignedOut after the interval ran
C14_Witness ==
    /\ activated
    /\ Len(setRuns) = MaxRuns
    /\ ctxTimers[10000] < 10000
    /\ ctxKeys.chatEntitlementSignedOut = TRUE

EventsOf(i) == {j \in DOMAIN sessionEvents : sessionEvents[j].call = i}
TimerIdle(i) == regs[i].timer = -1
ProbeOutcomes == {"none", "awaiting", "resolved", "swallowed"}

\* C15: registerFakeAuthenticationProvider never throws and returns a
\* disposable; when registering 'github' succeeds it returns the
\* registration's disposable and, once its timer has run, exactly one
\* session-change event (added = [the session], removed = [], changed = [])
\* has been fired; when registering throws it returns a no-op disposable,
\* fires no event, and makes a getSession probe whose failure is swallowed.
C15_RegisterOutcome ==
    \A i \in DOMAIN regs :
        /\ regs[i].outcome \in {"registration", "noop"}
        /\ regs[i].probe \in ProbeOutcomes
        /\ \A j \in EventsOf(i) :
               sessionEvents[j].event = [added |-> <<FakeSession>>, removed |-> <<>>,
                                         changed |-> <<>>]
        /\ regs[i].registered =>
               /\ regs[i].outcome = "registration"
               /\ Cardinality(EventsOf(i)) <= 1
               /\ TimerIdle(i) => Cardinality(EventsOf(i)) = 1
               /\ regs[i].probe = "none"
        /\ ~regs[i].registered =>
               /\ regs[i].outcome = "noop"
               /\ EventsOf(i) = {}
               /\ TimerIdle(i) => regs[i].probe /= "none"

\* C15, amended: as above for the copy of the function that starts a timer;
\* the copy without timers returns the same disposables, fires no event and
\* makes no probe.
C15_RegisterOutcomeByCopy ==
    \A i \in DOMAIN regs :
        /\ regs[i].outcome \in {"registration", "noop"}
        /\ regs[i].probe \in ProbeOutcomes
        /\ \A j \in EventsOf(i) :
               sessionEvents[j].event = [added |-> <<FakeSession>>, removed |-> <<>>,
                                         changed |-> <<>>]
        /\ regs[i].registered =>
               /\ regs[i].outcome = "registration"
               /\ Cardinality(EventsOf(i)) <= 1
               /\ (TimerIdle(i) /\ HasTimers(regs[i].copy)) => Cardinality(EventsOf(i)) = 1
               /\ ~HasTimers(regs[i].copy) => EventsOf(i) = {}
               /\ regs[i].probe = "none"
        /\ ~regs[i].registered =>
               /\ regs[i].outcome = "noop"
               /\ EventsOf(i) = {}
               /\ (TimerIdle(i) /\ HasTimers(regs[i].copy)) => regs[i].probe /= "none"
               /\ ~HasTimers(regs[i].copy) => regs[i].probe = "none"

\* activate registered the provider and its event was fired; a second call
\* found the id taken and its probe was rejected
C15_Witness ==
    /\ Len(regs) = 2
    /\ activated
    /\ regs[1].registered /\ HasTimers(regs[1].copy) /\ EventsOf(1) /= {} /\ TimerIdle(1)
    /\ ~regs[2].registered /\ regs[2].probe = "swallowed"


(***************************************************************************)
(* Properties of interceptBody.                                            *)
(***************************************************************************)
CallerBody == Deref(ibCaller[1].heap, ibCaller[1].body[1])
CurrentBody == Deref(ibHeap, ibBody[1])
HasMessages(b) == "messages" \in DOMAIN b

\* C16: after interceptBody the body has no snippy, copilot_thread_id or
\* copilot_skills and no message has copilot_references,
\* copilot_confirmations or copilot_cache_control; tools is gone if and only
\* if the endpoint does not support tool calls; every other field of the body
\* and of each message is as before; the caller's message objects are
\* untouched and the body refers to copies; for an undefined body nothing
\* happens; a second run changes nothing.
C16_StripsCopilotFields ==
    (ibCaller /= Undefined /\ ibRuns >= 1) =>
        IF ibCaller[1].body = Undefined
        THEN ibBody = Undefined /\ ibHeap = ibCaller[1].heap
        ELSE /\ ibBody /= Undefined
             /\ DOMAIN CurrentBody \cap {"snippy", "copilot_thread_id", "copilot_skills"} = {}
             /\ DOMAIN CurrentBody \subseteq DOMAIN CallerBody
             /\ \A k \in DOMAIN CallerBody \ {"snippy", "copilot_thread_id", "copilot_skills",
                                              "tools", "messages"} :
                    k \in DOMAIN CurrentBody /\ CurrentBody[k] = CallerBody[k]
             /\ "tools" \in DOMAIN CallerBody =>
                    /\ "tools" \notin DOMAIN CurrentBody <=> ~ibEndpoint.supportsToolCalls
                    /\ "tools" \in DOMAIN CurrentBody => CurrentBody.tools = CallerBody.tools
             /\ HasMessages(CurrentBody) <=> HasMessages(CallerBody)
             /\ HasMessages(CallerBody) =>
                    /\ Len(CurrentBody.messages) = Len(CallerBody.messages)
                    /\ \A i \in DOMAIN CallerBody.messages :
                         LET before == CallerBody.messages[i]
                             after == CurrentBody.messages[i]
                         IN  /\ DOMAIN after =
                                  DOMAIN before \ {"copilot_references", "copilot_confirmations",
                                                   "copilot_cache_control"}
                             /\ \A f \in DOMAIN after : after[f] = before[f]
                    /\ \A i \in DOMAIN ibBody[1].messages :
                         ibBody[1].messages[i] \notin DOMAIN ibCaller[1].heap
             /\ \A r \in DOMAIN ibCaller[1].heap : ibHeap[r] = ibCaller[1].heap[r]
             /\ ibRuns >= 2 => CurrentBody = ibFirst[1]

\* interceptBody ran twice, for an endpoint without tool calls, on a body with
\* tools, all three Copilot fields and a message carrying all three Copilot
\* properties
C16_Witness ==
    /\ ibCaller /= Undefined
    /\ ibRuns = 2
    /\ ibCaller[1].body /= Undefined
    /\ ~ibEndpoint.supportsToolCalls
    /\ {"snippy", "copilot_thread_id", "copilot_skills", "tools", "messages"}
           \subseteq DOMAIN CallerBody
    /\ Len(CallerBody.messages) >= 1
    /\ CallerBody.messages[1] = FullCopilotMessage


(***************************************************************************)
(* Properties of the streaming path.                                       *)
(***************************************************************************)
StreamedTo(c) == Responded(c) /\ ResponseOf(c).ok /\ SentAsEventStream(c)

\* C17: in the streaming path the caller sees no completion while the stream
\* is being consumed; when it sees the completions, every finished-callback
\* invocation of the processor has been made and every FinishedCompletion
\* converted, and the array it was given never changes afterwards; a stream
\* that throws mid-way leaves the caller with an error and no completion.
C17_NothingIncremental ==
    /\ [](\A c \in Calls : StreamedTo(c) =>
             /\ pc[c] = "stream" => result[c] = Undefined
             /\ result[c] /= Undefined =>
                    /\ pc[c] = "done"
                    /\ Len(cbLog[c]) = Len(CallbacksSent(c))
                    /\ \A i \in DOMAIN cbLog[c] : cbLog[c][i] = CallbacksSent(c)[i].call
                    /\ Len(arrays[c]) = Len(YieldsSent(c))
             /\ pc[c] = "thrown" =>
                    /\ arrays[c] = <<>>
                    /\ result[c] = Undefined
                    /\ error[c] /= Undefined)
    /\ [][\A c \in Calls : (StreamedTo(c) /\ pc[c] \in {"done", "thrown"}) =>
              /\ pc'[c] = pc[c]
              /\ arrays'[c] = arrays[c]
              /\ cbLog'[c] = cbLog[c]
              /\ result'[c] = result[c]]_vars

\* a streamed call returned two completions after its callback had been invoked
C17_Witness ==
    \E c \in Calls :
        /\ StreamedTo(c)
        /\ pc[c] = "done"
        /\ Len(arrays[c]) = 2
        /\ Len(cbLog[c]) >= 1

=============================================================================
